---- MODULE Spec2Model ----
(***************************************************************************)
(* Model of the camera streaming server: CameraManager (libcamera_server), *)
(* NetOutput (net_output) and the LibcameraApp message queue.              *)
(*                                                                         *)
(* Threads of the program:                                                 *)
(*   loop : CameraManager::serve_forever (std::thread started by start())  *)
(*   ctl  : main(), which reads commands and calls executeCommand itself   *)
(*   cam  : libcamera's completion context, LibcameraApp::requestComplete  *)
(*   enc  : the encoder's output context, which calls the output callback  *)
(* plus the environment: TCP clients and the wall clock.                   *)
(***************************************************************************)
EXTENDS Integers, Sequences, FiniteSets, TLC

(* ----- bounds of the model ----- *)
MaxFds == 3
NumRequests == 2

MaxCopies == 2

(* ----- program constants ----- *)
SERVER_WAITING_TIMEOUT == 600
Backlog == 1

(* Descriptors 0..2 are the standard streams; sockets get 3, 4, ... *)
FDs == 3..(2 + MaxFds)
BADFD == -1
Requests == 1..NumRequests
(* time(NULL) is seconds since the epoch: far beyond the timeout already. *)
StartTime == SERVER_WAITING_TIMEOUT + 1
(* The clock is watched until one whole waiting window has gone by. *)
TickStep == SERVER_WAITING_TIMEOUT + 1
Horizon == StartTime + TickStep
(* Sizes of the encoded chunks handed to outputBuffer. *)
ChunkSizes == {1, 2}
Errnos == {"ok", "EPIPE", "EOTHER"}

VARIABLES
    (* CameraManager *)
    m_state, m_net_output, m_socket_fd, start_waiting_timestamp, m_stop_request,
    (* locals of serve_forever *)
    pc, commands, local_start_waiting_timestamp,
    (* NetOutput (the fields keep their last values after delete) *)
    connections_, listen_fd, closed_,
    (* operating system: descriptor table, listen backlog, clock *)
    fdt, pending, now,
    (* LibcameraApp: message queue, its mutex, where each request is *)
    msg_queue, mutex_, loc, pc_cam,
    (* encoder *)
    enc_queue, encoder_running, cb_target,
    (* process *)
    proc,
    (* history: the last outputBuffer call checked on its own, the scenario,
       the command main() ran in the step just taken ("none" if the step was
       not main's) *)
    last_bcast, session, last_cmd,
    (* LibcameraApp: camera state, the set of completed requests out with the
       application, the position of StopCamera, the handles alive for each
       completed request *)
    camera_started_, camera_stop_mutex_, completed_requests_, pc_stop, use_count,
    (* history: the requests whose deleter ran in the step just taken, and
       the pairs <<q, r>> of frames in the queue with q posted before r *)
    hooked, before,
    (* LibcameraApp stopped and restarted: for each request, what has become
       of the handle of its completion from before the stop *)
    stale

mgr_vars == <<m_state, m_net_output, m_socket_fd, start_waiting_timestamp,
             m_stop_request>>
loop_vars == <<pc, commands, local_start_waiting_timestamp>>
net_vars == <<connections_, listen_fd, closed_>>
os_vars == <<fdt, pending, now>>
app_vars == <<msg_queue, mutex_, loc, pc_cam>>
enc_vars == <<enc_queue, encoder_running, cb_target>>
hist_vars == <<last_bcast, session>>
lib_vars == <<camera_started_, camera_stop_mutex_, completed_requests_, pc_stop, use_count>>
vars == <<mgr_vars, loop_vars, net_vars, os_vars, app_vars, enc_vars, proc, hist_vars,
          last_cmd, lib_vars, hooked, before, stale>>

Min(a, b) == IF a < b THEN a ELSE b
Range(s) == {s[i] : i \in 1..Len(s)}

(* ======================= operating system ======================= *)

(* close(fd): frees an open descriptor; EBADF otherwise. *)
Close(t, fd) == IF fd \in FDs /\ t[fd] # "free" THEN [t EXCEPT ![fd] = "free"] ELSE t

RECURSIVE CloseAll(_, _)
CloseAll(t, s) == IF s = <<>> THEN t ELSE CloseAll(Close(t, Head(s)), Tail(s))

FreeFds(t) == {fd \in FDs : t[fd] = "free"}
(* socket() and accept() return the lowest free descriptor. *)
LowestFree(t) == CHOOSE fd \in FreeFds(t) : \A g \in FreeFds(t) : fd <= g

(* Pending connections belong to the listening socket and go with it. *)
PendingAfter(t, p) == IF \E fd \in FDs : t[fd] = "listen" THEN p ELSE 0

(* ======================= NetOutput ======================= *)

(* net_output.cpp:84-97, the inner send loop for one descriptor.  `size' is
   the function's parameter and is counted down; max_size is the copy taken
   at line 83.  Returns the remaining size, the bytes handed to send() with
   success, and the errno of a failed send ("ok" if none failed). *)
RECURSIVE SendTo(_, _, _, _)
SendTo(size, max_size, result, sent) ==
    IF size = 0 THEN [size |-> size, sent |-> sent, err |-> "ok"]
    ELSE LET bytes_to_send == Min(size, max_size) IN
         IF result # "ok"
         THEN [size |-> size, sent |-> sent, err |-> result]
         ELSE SendTo(size - bytes_to_send, max_size, result, sent + bytes_to_send)

(* A variant that marks the descriptor on any failed send. *)
MarksClosedOnAnyError(err) == err # "ok"

(* net_output.cpp:88-92: which failed sends mark the descriptor as closed. *)
MarksClosed(err) == err = "EPIPE"

(* net_output.cpp:82-98, the loop over connections_.  acc.size is the shared
   `size' parameter, acc.closed_fds the vector of line 77, acc.sent the bytes
   sent per descriptor. *)
RECURSIVE SendAll(_, _, _, _)
SendAll(conns, i, res, acc) ==
    IF i > Len(conns) THEN acc
    ELSE LET fd == conns[i]
             r == SendTo(acc.size, acc.size, res[fd], 0)
         IN SendAll(conns, i + 1, res,
                [size |-> r.size,
                 closed_fds |-> IF MarksClosed(r.err) THEN Append(acc.closed_fds, fd)
                                ELSE acc.closed_fds,
                 sent |-> [acc.sent EXCEPT ![fd] = r.sent]])

(* net_output.cpp:101-107: erase the first element equal to fd. *)
RECURSIVE EraseFirst(_, _)
EraseFirst(conns, fd) ==
    IF conns = <<>> THEN <<>>
    ELSE IF Head(conns) = fd THEN Tail(conns)
    ELSE <<Head(conns)>> \o EraseFirst(Tail(conns), fd)

(* net_output.cpp:100-108: clean closed sockets. *)
RECURSIVE CleanClosed(_, _)
CleanClosed(conns, closed_fds) ==
    IF closed_fds = <<>> THEN conns
    ELSE CleanClosed(EraseFirst(conns, Head(closed_fds)), Tail(closed_fds))

(* net_output.cpp:74-114, NetOutput::outputBuffer on the connection list
   `conns', with res[fd] the outcome send() has on fd. *)
outputBuffer(conns, res, size) ==
    LET a == SendAll(conns, 1, res,
                 [size |-> size, closed_fds |-> <<>>, sent |-> [fd \in FDs |-> 0]])
    IN [conns |-> CleanClosed(conns, a.closed_fds),
        closed_fds |-> a.closed_fds,
        sent |-> a.sent]

(* net_output.cpp:121-127, NetOutput::acceptConnection when accept()
   succeeds: the new descriptor is appended to connections_. *)
acceptConnection(conns, t) ==
    [conns |-> Append(conns, LowestFree(t)),
     fdt |-> [t EXCEPT ![LowestFree(t)] = "conn"]]

(* History of the last outputBuffer call: its connection list and send()
   outcomes, the chunk size, the bytes sent to each descriptor, and whether
   any send of this or an earlier call has failed. *)
NoBcast == [n |-> 0, conns |-> <<>>, res |-> <<>>, size |-> 0,
            sent |-> [fd \in FDs |-> 0], fail_seen |-> FALSE]

(* The state change of one outputBuffer call, with its history. *)
DoOutputBuffer(res, size) ==
    LET r == outputBuffer(connections_, res, size) IN
    /\ connections_' = r.conns
    /\ fdt' = CloseAll(fdt, r.closed_fds)
    /\ last_bcast' = [n |-> 1 - last_bcast.n, conns |-> connections_,
                      res |-> res, size |-> size, sent |-> r.sent,
                      fail_seen |-> \/ last_bcast.fail_seen
                                    \/ \E i \in 1..Len(connections_) :
                                         /\ res[connections_[i]] # "ok"
                                         /\ \A j \in 1..(i - 1) :
                                              res[connections_[j]] # "ok"]

(* A variant that closes the connections and leaves the listening socket. *)
stopServerFdsKeepListening(t) == CloseAll(t, connections_)

(* net_output.hpp:25, NetOutput::closed. *)
closed == closed_

(* net_output.cpp:64-71, NetOutput::stopServer, on the descriptor table. *)
stopServerFds(t) == CloseAll(Close(t, listen_fd), connections_)

(* A variant that does not call stopServer. *)
destroyFdsWithoutStop(t) == CloseAll(t, connections_)

(* net_output.cpp:28-34, NetOutput::~NetOutput, on the descriptor table:
   stopServer(), then close every descriptor still in connections_, which
   stopServer has just cleared. *)
destroyFds(t) == CloseAll(stopServerFds(t), <<>>)

(* ======================= encoder (not in src) ======================= *)

(* LibcameraEncoder::StopEncoder: the encoder goes away and with it the
   frame handles it still holds, which requeues their requests. *)
StopEncoder ==
    /\ encoder_running' = FALSE
    /\ enc_queue' = <<>>
    /\ loc' = [r \in Requests |-> IF loc[r] = "encoder" THEN "camera" ELSE loc[r]]

(* LibcameraEncoder::StartEncoder: the encoder runs from now on, whether or
   not it ran before. *)
StartEncoder == encoder_running' = TRUE

(* ======================= CameraManager ======================= *)

Cmd(c, why) == [cmd |-> c, origin |-> why]

(* A variant that starts a server in any state. *)
CanStartInAnyState(state) == TRUE

(* libcamera_server.cpp:80: the test that lets a start command act. *)
CanStart(state) == state = "IDLE"

(* libcamera_server.cpp:78-87, CameraManager::startNetworkStream.  `outcome'
   is what the NetOutput constructor and startServer do: "ok", or the throw
   of net_output.cpp:18/21 ("ctor"), :41 ("socket") or :50/:53 ("bind").  An
   exception leaves executeCommand; on the ctl thread main() catches it and
   returns, on any thread the process ends. *)
startNetworkStream(outcome) ==
    IF ~CanStart(m_state)
    THEN UNCHANGED <<mgr_vars, net_vars, fdt, pending, proc, cb_target>>
    ELSE
      CASE outcome = "ctor" ->
             /\ proc' = "terminated"
             /\ UNCHANGED <<mgr_vars, net_vars, fdt, pending, cb_target>>
        [] outcome = "socket" ->
             /\ proc' = "terminated"
             /\ m_net_output' = "obj"
             /\ connections_' = <<>> /\ closed_' = FALSE /\ listen_fd' = BADFD
             /\ UNCHANGED <<m_state, m_socket_fd, start_waiting_timestamp,
                            m_stop_request, fdt, pending, cb_target>>
        [] outcome = "bind" ->
             /\ FreeFds(fdt) # {}
             /\ proc' = "terminated"
             /\ m_net_output' = "obj"
             /\ connections_' = <<>> /\ closed_' = FALSE
             /\ listen_fd' = LowestFree(fdt)
             /\ fdt' = [fdt EXCEPT ![LowestFree(fdt)] = "socket"]
             /\ UNCHANGED <<m_state, m_socket_fd, start_waiting_timestamp,
                            m_stop_request, pending, cb_target>>
        [] outcome = "ok" ->
             /\ FreeFds(fdt) # {}
             /\ m_net_output' = "obj"
             /\ connections_' = <<>> /\ closed_' = FALSE
             /\ listen_fd' = LowestFree(fdt)
             /\ fdt' = [fdt EXCEPT ![LowestFree(fdt)] = "listen"]
             /\ m_socket_fd' = LowestFree(fdt)
             /\ m_state' = "WAITING_CONNECTION"
             /\ start_waiting_timestamp' = now
             /\ UNCHANGED <<m_stop_request, pending, proc, cb_target>>

(* libcamera_server.cpp:94-102: in CONNECTED the NetOutput is deleted before
   StopEncoder runs, while the encoder's output callback (bound to the raw
   pointer at line 247) may still be called for a frame it holds: a call on a
   deleted object, after which the process goes on or ends. *)
StopOutcomes ==
    IF /\ m_state = "CONNECTED" /\ m_net_output # "nullptr"
       /\ cb_target = "current" /\ encoder_running /\ enc_queue # <<>>
    THEN {"running", "terminated"}
    ELSE {"running"}

(* The descriptors stopNetworkStream hands to close(), in order, when there
   is a NetOutput: delete runs ~NetOutput and stopServer, which close
   listen_fd and each element of connections_ and clear the list
   (net_output.cpp:30, 65-69), the loop of the destructor then finds the
   list empty (net_output.cpp:31-33), and in WAITING_CONNECTION line 98 of
   libcamera_server.cpp closes m_socket_fd. *)
ClosedByStop ==
    <<listen_fd>> \o connections_
        \o (IF m_state = "WAITING_CONNECTION" THEN <<m_socket_fd>> ELSE <<>>)

(* libcamera_server.cpp:90-106, CameraManager::stopNetworkStream. *)
stopNetworkStream ==
    IF m_state \in {"WAITING_CONNECTION", "CONNECTED"}
    THEN /\ m_net_output' = "nullptr"
         /\ m_state' = "IDLE"
         /\ proc' \in StopOutcomes
         /\ UNCHANGED <<m_socket_fd, start_waiting_timestamp, m_stop_request>>
         /\ IF m_net_output = "nullptr"
            THEN (* delete of a null pointer does nothing *)
                 /\ UNCHANGED <<net_vars, cb_target>>
                 /\ fdt' = IF m_state = "WAITING_CONNECTION"
                           THEN Close(fdt, m_socket_fd) ELSE fdt
            ELSE /\ connections_' = <<>>
                 /\ closed_' = TRUE
                 /\ UNCHANGED listen_fd
                 /\ cb_target' = IF cb_target = "current" THEN "dangling" ELSE cb_target
                 /\ fdt' = IF m_state = "WAITING_CONNECTION"
                           THEN Close(destroyFds(fdt), m_socket_fd)
                           ELSE destroyFds(fdt)
         /\ pending' = PendingAfter(fdt', pending)
         /\ IF m_state = "WAITING_CONNECTION"
            THEN UNCHANGED <<enc_queue, encoder_running, loc>>
            ELSE StopEncoder
    ELSE UNCHANGED <<mgr_vars, net_vars, fdt, pending, proc, cb_target,
                     enc_queue, encoder_running, loc>>

(* A variant in which every command but the close command starts a stream. *)
executeCommandCaptureStarts(c, outcome) ==
    IF c.cmd = "CLOSE_NETWORK_STREAM"
    THEN /\ stopNetworkStream
         /\ session' = IF c.origin = "control" THEN "none" ELSE session
    ELSE /\ startNetworkStream("ok")
         /\ UNCHANGED <<enc_queue, encoder_running, loc>>
         /\ session' = IF m_state = "IDLE" THEN "started" ELSE session

(* libcamera_server.cpp:61-75, CameraManager::executeCommand.  session is
   history. *)
executeCommand(c, outcome) ==
    CASE c.cmd = "OPEN_NETWORK_STREAM" ->
         /\ startNetworkStream(outcome)
         /\ UNCHANGED <<enc_queue, encoder_running, loc>>
         /\ session' = IF m_state = "IDLE" /\ outcome = "ok" THEN "started"
                       ELSE session
      [] c.cmd = "CLOSE_NETWORK_STREAM" ->
         /\ stopNetworkStream
         /\ session' = IF c.origin = "control" THEN "none" ELSE session
      [] OTHER ->
         /\ UNCHANGED <<mgr_vars, net_vars, fdt, pending, proc, cb_target,
                        enc_queue, encoder_running, loc, session>>


(* ======================= serve_forever ======================= *)

Running == proc = "running"

(* last_cmd is history, not a field of the program: where commands are
   logged it names the command the control thread ran in the step just
   taken, and CtlReturn drops it before the next step of any thread.  Every
   other step is taken with no command on record and leaves none. *)
NoCommand == last_cmd = "none" /\ last_cmd' = "none"

(* A variant that encodes whenever a stream was started. *)
ShouldEncodeUnlessIdle(state) == state # "IDLE"

(* libcamera_server.cpp:197: the test that gates encoding. *)
ShouldEncode(state) == state = "CONNECTED"

(* libcamera_server.cpp:213: the timeout test, on time(NULL) and the
   timestamp the loop compares with. *)
TimeoutElapsed(t, since) == t - since > SERVER_WAITING_TIMEOUT

(* libcamera_app.cpp:340-377, LibcameraApp::queueRequest run by the deleter of
   the last handle of request r: the camera is started, so r is requeued. *)
queueRequest(l, r) == [l EXCEPT ![r] = "camera"]

(* The completed requests that are out with the application: posted, in the
   queue, or submitted to the encoder.  Each is in completed_requests_
   (libcamera_app.cpp:557-560) until queueRequest erases it (line 361). *)
InFlight(l) == {r \in Requests : l[r] \in {"posting", "relay", "encoder"}}

(* In serve_forever every completed request has one handle, which moves from
   requestComplete to the queue, to the local msg and to the encoder, and
   whose deleter runs queueRequest when it is dropped. *)
HandlesFollow ==
    /\ use_count' = [r \in Requests |-> IF r \in InFlight(loc') THEN 1 ELSE 0]
    /\ completed_requests_' = InFlight(loc')
    /\ hooked' = InFlight(loc) \ InFlight(loc')
    /\ UNCHANGED <<camera_started_, camera_stop_mutex_, pc_stop, stale>>

(* libcamera_server.cpp:190 and libcamera_app.hpp:135-139: Wait() takes the
   mutex, sleeps until the queue is not empty, and returns a pointer to the
   queue, releasing the mutex as it returns. *)
LoopWait ==
    /\ Running /\ pc = "wait"
    /\ mutex_ = "none"
    /\ msg_queue # <<>>
    /\ pc' = "drain"
    /\ UNCHANGED <<mgr_vars, commands, local_start_waiting_timestamp,
                   net_vars, os_vars, app_vars, enc_vars, proc, hist_vars>>
    /\ NoCommand
    /\ HandlesFollow /\ UNCHANGED before

(* libcamera_server.cpp:192-201: one turn of the drain loop.  front() and
   pop() act on the queue through the pointer, without the mutex. *)
LoopDrain ==
    /\ Running /\ pc = "drain"
    /\ IF msg_queue = <<>>
       THEN /\ pc' = "state"
            /\ UNCHANGED <<msg_queue, loc, enc_queue, before>>
       ELSE LET r == Head(msg_queue) IN
            /\ msg_queue' = Tail(msg_queue)
            /\ before' = {p \in before : p[1] # r /\ p[2] # r}
            /\ pc' = "drain"
            /\ IF ShouldEncode(m_state)
               THEN /\ enc_queue' = Append(enc_queue, r)
                    /\ loc' = [loc EXCEPT ![r] = "encoder"]
               ELSE /\ enc_queue' = enc_queue
                    /\ loc' = queueRequest(loc, r)
    /\ UNCHANGED <<mgr_vars, commands, local_start_waiting_timestamp,
                   net_vars, os_vars, mutex_, pc_cam, encoder_running, cb_target,
                   proc, hist_vars>>
    /\ NoCommand
    /\ HandlesFollow

(* libcamera_server.cpp:204-222: the switch on m_state. *)
LoopState ==
    /\ Running /\ pc = "state"
    /\ commands' =
         IF m_state = "CONNECTED"
         THEN IF closed THEN Append(commands, Cmd("CLOSE_NETWORK_STREAM", "closed"))
              ELSE commands
         ELSE IF m_state = "WAITING_CONNECTION"
         THEN IF TimeoutElapsed(now, local_start_waiting_timestamp)
              THEN Append(commands, Cmd("CLOSE_NETWORK_STREAM", "timeout"))
              ELSE commands
         ELSE commands
    /\ pc' = "pselect"
    /\ UNCHANGED <<mgr_vars, local_start_waiting_timestamp,
                   net_vars, os_vars, app_vars, enc_vars, proc, hist_vars>>
    /\ NoCommand
    /\ HandlesFollow /\ UNCHANGED before

(* libcamera_server.cpp:224-233: the descriptors pselect looks at.  rfds
   holds m_socket_fd when there is a NetOutput, and nfds is m_socket_fd + 1. *)
Watched == IF m_net_output # "nullptr" /\ m_socket_fd >= 0 THEN {m_socket_fd} ELSE {}

(* libcamera_server.cpp:224-245: pselect over the watched descriptors, and
   the choice of branch on its return value.  A listening socket is readable
   when a connection is pending; a connection is readable when its peer has
   sent something or hung up, which is the environment's choice `peers'. *)
LoopPselect ==
    /\ Running /\ pc = "pselect"
    /\ \/ (* -1, EBADF or EINTR: a watched descriptor is not open, or a signal *)
          pc' = "cmds"
       \/ /\ \A fd \in Watched : fd \in FDs /\ fdt[fd] # "free"
          /\ \E peers \in SUBSET {fd \in Watched : fdt[fd] = "conn"} :
               LET ready == peers \cup
                            {fd \in Watched : fdt[fd] = "listen" /\ pending > 0}
               IN IF ready = {}
                  THEN (* 0: the 125 ms ran out *)
                       pc' = "cmds"
                  ELSE pc' = "accept"
    /\ UNCHANGED <<mgr_vars, commands, local_start_waiting_timestamp,
                   net_vars, os_vars, app_vars, enc_vars, proc, hist_vars>>
    /\ NoCommand
    /\ HandlesFollow /\ UNCHANGED before

(* What m_socket_fd holds after line 246: acceptConnection (net_output.cpp:
   116-130) is declared int and returns nothing, so the value is undefined.
   Whatever it is, it is the listening socket, or another open descriptor
   (the one just accepted stands for these), or no open descriptor. *)
AcceptReturn(fd) == {listen_fd, fd, BADFD}

(* libcamera_server.cpp:246-250 with net_output.cpp:116-130, in whatever
   state serve_forever is: the callback is bound and StartEncoder called
   after every accept.  accept() blocks while nothing is pending.  `ok' is whether accept() succeeds. *)
LoopAccept ==
    /\ Running /\ pc = "accept"
    /\ IF m_net_output = "nullptr"
       THEN (* member call through a null pointer *)
            /\ proc' = "terminated"
            /\ UNCHANGED <<mgr_vars, pc, net_vars, fdt, pending, enc_vars, session>>
       ELSE /\ listen_fd \in FDs /\ fdt[listen_fd] = "listen" /\ pending > 0
            /\ \E ok \in BOOLEAN :
                 IF ok /\ FreeFds(fdt) # {}
                 THEN /\ connections_' = acceptConnection(connections_, fdt).conns
                      /\ fdt' = acceptConnection(connections_, fdt).fdt
                      /\ pending' = pending - 1
                      /\ \E v \in AcceptReturn(LowestFree(fdt)) : m_socket_fd' = v
                      /\ cb_target' = "current"
                      /\ StartEncoder
                      /\ m_state' = "CONNECTED"
                      /\ session' = IF session = "started" THEN "accepted" ELSE session
                      /\ pc' = "cmds"
                      /\ UNCHANGED <<m_net_output, start_waiting_timestamp,
                                     m_stop_request, listen_fd, closed_,
                                     enc_queue, proc>>
                 ELSE (* runtime_error leaves the thread function *)
                      /\ proc' = "terminated"
                      /\ pending' = pending - 1
                      /\ UNCHANGED <<mgr_vars, pc, net_vars, fdt, enc_vars, session>>
    /\ UNCHANGED <<commands, local_start_waiting_timestamp, now,
                   app_vars, last_bcast>>
    /\ NoCommand
    /\ HandlesFollow /\ UNCHANGED before

(* libcamera_server.cpp:254-259 and 187: run the commands gathered in this
   turn (the switch pushes at most one) and clear the vector; then the test
   of the while loop, which leaves serve_forever when a stop was requested
   and goes into Wait() otherwise. *)
LoopCommands ==
    /\ Running /\ pc = "cmds"
    /\ pc' = IF m_stop_request THEN "exited" ELSE "wait"
    /\ commands' = <<>>
    /\ IF commands = <<>>
       THEN UNCHANGED <<mgr_vars, net_vars, fdt, pending, proc, enc_vars, loc,
                        session>>
       ELSE executeCommand(Head(commands), "ok")
    /\ UNCHANGED <<local_start_waiting_timestamp, now,
                   msg_queue, mutex_, pc_cam, last_bcast>>
    /\ NoCommand
    /\ HandlesFollow /\ UNCHANGED before


(* ======================= the other threads ======================= *)

Commands == {"OPEN_NETWORK_STREAM", "CLOSE_NETWORK_STREAM", "CAPTURE_IMAGE"}
StartOutcomes == {"ok", "ctor", "socket", "bind"}

(* libcamera_server.cpp:270-274: main() reads command c and runs
   executeCommand on its own thread. *)
CtlStep(c) ==
    /\ Running
    /\ \E outcome \in (IF c = "OPEN_NETWORK_STREAM" /\ m_state = "IDLE"
                       THEN StartOutcomes ELSE {"ok"}) :
          executeCommand(Cmd(c, "control"), outcome)
    /\ UNCHANGED <<loop_vars, now, msg_queue, mutex_, pc_cam, last_bcast>>
    /\ HandlesFollow /\ UNCHANGED before

(* The control thread runs some command. *)
CtlCommand == \E c \in Commands : CtlStep(c) /\ NoCommand

(* The control thread runs some command, and the command is put on record. *)
CtlLogged ==
    /\ last_cmd = "none"
    /\ \E c \in Commands : CtlStep(c) /\ last_cmd' = c

(* libcamera_server.cpp:273-274: executeCommand has returned to main()'s
   loop; the record of the command is dropped and nothing else changes. *)
CtlReturn ==
    /\ last_cmd # "none"
    /\ last_cmd' = "none"
    /\ UNCHANGED <<mgr_vars, loop_vars, net_vars, os_vars, app_vars, enc_vars,
                   proc, hist_vars>>
    /\ HandlesFollow /\ UNCHANGED before

(* libcamera_server.cpp:151-154, CameraManager::stop up to the join: the
   stop request is set; nothing is posted to the queue and its condition
   variable is not notified.  The join returns once serve_forever has
   returned. *)
stop ==
    /\ Running /\ ~m_stop_request
    /\ m_stop_request' = TRUE
    /\ UNCHANGED <<m_state, m_net_output, m_socket_fd, start_waiting_timestamp,
                   loop_vars, net_vars, os_vars, app_vars, enc_vars, proc,
                   hist_vars>>
    /\ NoCommand
    /\ HandlesFollow /\ UNCHANGED before

(* The words main() may read from standard input: the three that get_command
   recognises and one that it does not. *)
Words == {"start_video_server", "stop_video_server", "capture_image", "bogus"}

(* libcamera_server.cpp:115-131, get_command: the values it can return for a
   word.  For a word that is none of the three, control flows off the end of
   the function without a return statement, so the value the caller receives
   is undefined: any of the enumerators of ServerCommand
   (libcamera_server.hpp:17-23). *)
get_command(word) ==
    CASE word = "start_video_server" -> {"OPEN_NETWORK_STREAM"}
      [] word = "stop_video_server" -> {"CLOSE_NETWORK_STREAM"}
      [] word = "capture_image" -> {"CAPTURE_IMAGE"}
      [] OTHER -> Commands \cup {"NOP"}

(* libcamera_server.cpp:270-274: main() reads a word, and runs executeCommand
   on what get_command made of it.  The record is the command, or
   "UNRECOGNISED" when the word was none of the three. *)
CtlInput ==
    /\ last_cmd = "none"
    /\ \E word \in Words : \E c \in get_command(word) :
         /\ CtlStep(c)
         /\ last_cmd' = IF Cardinality(get_command(word)) = 1 THEN c
                        ELSE "UNRECOGNISED"

(* libcamera_app.cpp:550-574 and libcamera_app.hpp:129-131: a request
   completes, requestComplete wraps it and Post takes the queue's mutex. *)
CamComplete ==
    /\ Running /\ pc_cam = 0
    /\ mutex_ = "none"
    /\ \E r \in Requests :
         /\ loc[r] = "camera"
         /\ pc_cam' = r
         /\ loc' = [loc EXCEPT ![r] = "posting"]
    /\ mutex_' = "cam"
    /\ UNCHANGED <<mgr_vars, loop_vars, net_vars, os_vars, msg_queue, enc_vars,
                   proc, hist_vars>>
    /\ NoCommand
    /\ HandlesFollow /\ UNCHANGED before

(* A variant that puts the message at the head of the queue. *)
PushFront(q, x) == <<x>> \o q

(* libcamera_app.hpp:132: queue_.push. *)
Push(q, x) == Append(q, x)

(* libcamera_app.hpp:132 against libcamera_server.cpp:192-195: serve_forever
   reads and pops the std::queue with no lock, so a push made while it is in
   its drain loop is a data race.  The push then works; or the consumer sees
   the new end of the queue before the element stored there and takes an
   empty message in its place, the frame going back unprocessed when its slot
   is destroyed; or the consumer walks storage the push is rearranging and
   the process ends. *)
PostOutcomes == IF pc = "drain" THEN {"pushed", "dropped", "crash"} ELSE {"pushed"}

(* libcamera_app.hpp:132-134: push, notify_one, and the lock goes out of
   scope. *)
CamPost ==
    /\ Running /\ pc_cam # 0
    /\ \E o \in PostOutcomes :
         CASE o = "pushed" ->
                /\ msg_queue' = Push(msg_queue, pc_cam)
                /\ loc' = [loc EXCEPT ![pc_cam] = "relay"]
                /\ before' = before \cup {<<q, pc_cam>> : q \in {x \in Requests : loc[x] = "relay"}}
                /\ UNCHANGED proc
           [] o = "dropped" ->
                /\ loc' = queueRequest(loc, pc_cam)
                /\ UNCHANGED <<msg_queue, before, proc>>
           [] o = "crash" ->
                /\ proc' = "terminated"
                /\ UNCHANGED <<msg_queue, loc, before>>
    /\ pc_cam' = 0
    /\ mutex_' = "none"
    /\ HandlesFollow
    /\ UNCHANGED <<mgr_vars, loop_vars, net_vars, os_vars, enc_vars, hist_vars>>
    /\ NoCommand

(* net_output.cpp:74-114: the connection list and the descriptor table that
   one outputBuffer call can leave, over what send() does on each descriptor
   and the size of the chunk. *)
OutputBufferEffects ==
    {LET r == outputBuffer(connections_, res, size)
     IN [conns |-> r.conns, fdt |-> CloseAll(fdt, r.closed_fds)] :
        res \in [Range(connections_) -> Errnos], size \in ChunkSizes}

(* The encoder finishes the oldest submitted frame and calls the output-ready
   callback bound at libcamera_server.cpp:247, which reaches
   NetOutput::outputBuffer; the frame's handle is dropped. *)
EncoderOutput ==
    /\ Running /\ encoder_running /\ enc_queue # <<>>
    /\ IF cb_target = "current"
       THEN \E e \in OutputBufferEffects :
              /\ connections_' = e.conns
              /\ fdt' = e.fdt
              /\ UNCHANGED proc
       ELSE (* the bound NetOutput has been deleted *)
            /\ proc' = "terminated"
            /\ UNCHANGED <<connections_, fdt>>
    /\ enc_queue' = Tail(enc_queue)
    /\ loc' = queueRequest(loc, Head(enc_queue))
    /\ UNCHANGED <<mgr_vars, loop_vars, listen_fd, closed_, pending, now,
                   msg_queue, mutex_, pc_cam, encoder_running, cb_target,
                   hist_vars>>
    /\ NoCommand
    /\ HandlesFollow /\ UNCHANGED before

(* A TCP client connects to the listening socket. *)
ClientConnect ==
    /\ Running
    /\ \E fd \in FDs : fdt[fd] = "listen"
    /\ pending < Backlog
    /\ pending' = pending + 1
    /\ UNCHANGED <<mgr_vars, loop_vars, net_vars, fdt, now, app_vars, enc_vars,
                   proc, hist_vars>>
    /\ NoCommand
    /\ HandlesFollow /\ UNCHANGED before

(* The wall clock advances. *)
Tick ==
    /\ Running
    /\ now < Horizon
    /\ now' = now + TickStep
    /\ UNCHANGED <<mgr_vars, loop_vars, net_vars, fdt, pending, app_vars, enc_vars,
                   proc, hist_vars>>
    /\ NoCommand
    /\ HandlesFollow /\ UNCHANGED before

(* ======================= specification ======================= *)

(* The state after CameraManager::start(): members at their initialisers
   (libcamera_server.hpp:38-43), the camera started with every request
   queued, serve_forever at its first Wait (libcamera_server.cpp:177-190). *)
Init ==
    /\ m_state = "IDLE" /\ m_net_output = "nullptr" /\ m_socket_fd = 0
    /\ start_waiting_timestamp = 0 /\ m_stop_request = FALSE
    /\ pc = "wait" /\ commands = <<>> /\ local_start_waiting_timestamp = 0
    /\ connections_ = <<>> /\ listen_fd = BADFD /\ closed_ = FALSE
    /\ fdt = [fd \in FDs |-> "free"] /\ pending = 0 /\ now = StartTime
    /\ msg_queue = <<>> /\ mutex_ = "none" /\ loc = [r \in Requests |-> "camera"]
    /\ pc_cam = 0
    /\ enc_queue = <<>> /\ encoder_running = FALSE /\ cb_target = "none"
    /\ proc = "running"
    /\ last_bcast = NoBcast
    /\ session = "none"
    /\ last_cmd = "none"
    /\ camera_started_ = TRUE /\ camera_stop_mutex_ = "none"
    /\ completed_requests_ = {} /\ pc_stop = "idle"
    /\ use_count = [r \in Requests |-> 0]
    /\ hooked = {} /\ before = {}
    /\ stale = [r \in Requests |-> "none"]

Next ==
    \/ LoopWait \/ LoopDrain \/ LoopState \/ LoopPselect
    \/ LoopAccept \/ LoopCommands
    \/ CtlCommand \/ CamComplete \/ CamPost \/ EncoderOutput
    \/ ClientConnect \/ Tick

Spec == Init /\ [][Next]_vars


(* Fairness: the serve_forever thread runs while it is not blocked, the
   started camera keeps completing the requests queued to it, and the running
   encoder finishes the frames submitted to it.  Signals do not interrupt
   pselect for ever: a descriptor that is ready again and again is reported.  Frames come
   at the sensor's frame rate, far slower than the drain loop takes them off
   the queue, so each drain comes to an end (DrainEnds). *)
DrainEnds == []<>(pc # "drain" \/ proc = "terminated")

Fairness ==
    /\ WF_vars(LoopWait) /\ WF_vars(LoopDrain) /\ WF_vars(LoopState)
    /\ WF_vars(LoopPselect) /\ WF_vars(LoopAccept) /\ WF_vars(LoopCommands)
    /\ WF_vars(CamComplete) /\ WF_vars(CamPost) /\ WF_vars(EncoderOutput)
    /\ SF_vars(LoopPselect /\ pc' = "accept")
    /\ DrainEnds

FairSpec == Init /\ [][Next]_vars /\ Fairness

(* The same program with the commands of the control thread on record. *)
CmdNext ==
    \/ LoopWait \/ LoopDrain \/ LoopState \/ LoopPselect
    \/ LoopAccept \/ LoopCommands
    \/ CtlLogged \/ CtlReturn \/ CamComplete \/ CamPost \/ EncoderOutput
    \/ ClientConnect \/ Tick

CmdSpec == Init /\ [][CmdNext]_vars

(* The program with a caller of CameraManager::stop.  serve_forever runs
   while it is not blocked; nothing is assumed of the camera, which may or
   may not complete another request. *)
StopNext ==
    \/ LoopWait \/ LoopDrain \/ LoopState \/ LoopPselect
    \/ LoopAccept \/ LoopCommands
    \/ CtlCommand \/ CamComplete \/ CamPost \/ EncoderOutput
    \/ ClientConnect \/ Tick \/ stop

LoopFairness ==
    /\ WF_vars(LoopWait) /\ WF_vars(LoopDrain) /\ WF_vars(LoopState)
    /\ WF_vars(LoopPselect) /\ WF_vars(LoopAccept) /\ WF_vars(LoopCommands)
    /\ WF_vars(CamPost)
    /\ SF_vars(LoopPselect /\ pc' = "accept")
    /\ DrainEnds

StopSpec == Init /\ [][StopNext]_vars /\ LoopFairness

(* The program when nothing is assumed of the camera: serve_forever runs
   while it is not blocked, and a frame may or may not arrive. *)
LoopSpec == Init /\ [][Next]_vars /\ LoopFairness

(* The same program with the words read by the control thread on record. *)
InputNext ==
    \/ LoopWait \/ LoopDrain \/ LoopState \/ LoopPselect
    \/ LoopAccept \/ LoopCommands
    \/ CtlInput \/ CtlReturn \/ CamComplete \/ CamPost \/ EncoderOutput
    \/ ClientConnect \/ Tick

InputSpec == Init /\ [][InputNext]_vars

(* ======================= NetOutput on its own ======================= *)

(* A NetOutput right after startNetworkStream has built and started it; then
   acceptConnection and outputBuffer in any order, with any send() outcomes. *)
NetInit ==
    /\ m_state = "WAITING_CONNECTION" /\ m_net_output = "obj"
    /\ m_socket_fd = LowestFree([fd \in FDs |-> "free"])
    /\ start_waiting_timestamp = StartTime /\ m_stop_request = FALSE
    /\ pc = "wait" /\ commands = <<>> /\ local_start_waiting_timestamp = 0
    /\ connections_ = <<>> /\ listen_fd = m_socket_fd /\ closed_ = FALSE
    /\ fdt = [fd \in FDs |-> IF fd = listen_fd THEN "listen" ELSE "free"]
    /\ pending = 0 /\ now = StartTime
    /\ msg_queue = <<>> /\ mutex_ = "none" /\ loc = [r \in Requests |-> "camera"]
    /\ pc_cam = 0
    /\ enc_queue = <<>> /\ encoder_running = FALSE /\ cb_target = "none"
    /\ proc = "running"
    /\ last_bcast = NoBcast
    /\ session = "started"
    /\ last_cmd = "none"
    /\ camera_started_ = TRUE /\ camera_stop_mutex_ = "none"
    /\ completed_requests_ = {} /\ pc_stop = "idle"
    /\ use_count = [r \in Requests |-> 0]
    /\ hooked = {} /\ before = {}
    /\ stale = [r \in Requests |-> "none"]

NetAccept ==
    /\ FreeFds(fdt) # {}
    /\ connections_' = acceptConnection(connections_, fdt).conns
    /\ fdt' = acceptConnection(connections_, fdt).fdt
    /\ UNCHANGED <<mgr_vars, loop_vars, listen_fd, closed_, pending, now, app_vars,
                   enc_vars, proc, hist_vars>>
    /\ NoCommand
    /\ HandlesFollow /\ UNCHANGED before

NetOutputBuffer ==
    /\ \E res \in [Range(connections_) -> Errnos] : \E size \in ChunkSizes :
         DoOutputBuffer(res, size)
    /\ UNCHANGED <<mgr_vars, loop_vars, listen_fd, closed_, pending, now, app_vars,
                   enc_vars, proc, session>>
    /\ NoCommand
    /\ HandlesFollow /\ UNCHANGED before

NetNext == NetAccept \/ NetOutputBuffer

NetSpec == NetInit /\ [][NetNext]_vars


(* ======================= LibcameraApp on its own ======================= *)


(* A started camera and an application that takes completed requests off the
   queue, copies and drops their handles when it likes, and stops the camera
   once, at any moment.  loc[r] is where request r is: queued to the "camera",
   in the "relay" queue, "held" by the application, in its deleter waiting
   for camera_stop_mutex_ ("deleting") or holding it ("locked"), "dropped" by
   queueRequest without requeueing, or "cancelled" by the stop. *)
prog_vars == <<mgr_vars, loop_vars, net_vars, os_vars, enc_vars, proc, hist_vars,
               last_cmd, mutex_, pc_cam, stale>>

(* std::shared_ptr: a copy and a release of a handle of request r. *)
HandleCopy(uc, r) == [uc EXCEPT ![r] = @ + 1]
HandleRelease(uc, r) == [uc EXCEPT ![r] = @ - 1]

(* A variant that runs the deleter at every release. *)
DeleterRunsAtEveryRelease(n) == TRUE

(* libcamera_app.cpp:556: the deleter given to the shared_ptr runs when the
   last handle is released, n being the handles left. *)
DeleterRuns(n) == n = 0

(* A variant that requeues whatever the camera's state. *)
MayRequeueAlways(started, completed, r) == TRUE

(* libcamera_app.cpp:351-360: the two tests queueRequest makes, under
   camera_stop_mutex_, before it requeues. *)
MayRequeue(started, completed, r) == started /\ r \in completed

(* libcamera_app.cpp:550-574: requestComplete for a request the camera has
   completed: a handle is made, the request recorded and the message posted. *)
AppRequestComplete ==
    /\ \E r \in Requests :
         /\ loc[r] = "camera"
         /\ loc' = [loc EXCEPT ![r] = "relay"]
         /\ use_count' = [use_count EXCEPT ![r] = 1]
         /\ completed_requests_' = completed_requests_ \cup {r}
         /\ msg_queue' = Push(msg_queue, r)
         /\ before' = before \cup {<<q, r>> : q \in {x \in Requests : loc[x] = "relay"}}
    /\ hooked' = {}
    /\ UNCHANGED <<prog_vars, camera_started_, camera_stop_mutex_, pc_stop>>

(* libcamera_server.cpp:194-195: the application moves the message at the
   head of the queue out of it. *)
AppTake ==
    /\ msg_queue # <<>>
    /\ msg_queue' = Tail(msg_queue)
    /\ loc' = [loc EXCEPT ![Head(msg_queue)] = "held"]
    /\ before' = {p \in before : p[1] # Head(msg_queue) /\ p[2] # Head(msg_queue)}
    /\ hooked' = {}
    /\ UNCHANGED <<prog_vars, lib_vars>>

(* The application copies a handle it holds. *)
AppCopy ==
    /\ \E r \in Requests :
         /\ loc[r] = "held" /\ use_count[r] <= MaxCopies
         /\ use_count' = HandleCopy(use_count, r)
    /\ hooked' = {}
    /\ UNCHANGED <<prog_vars, camera_started_, camera_stop_mutex_,
                   completed_requests_, pc_stop, msg_queue, loc, before>>

(* The application drops a handle; the last one runs the deleter, which is
   queueRequest (libcamera_app.cpp:342-345, up to the lock). *)
AppDrop ==
    /\ \E r \in Requests :
         /\ loc[r] = "held"
         /\ use_count' = HandleRelease(use_count, r)
         /\ IF DeleterRuns(use_count'[r])
            THEN loc' = [loc EXCEPT ![r] = "deleting"] /\ hooked' = {r}
            ELSE UNCHANGED loc /\ hooked' = {}
    /\ UNCHANGED <<prog_vars, camera_started_, camera_stop_mutex_,
                   completed_requests_, pc_stop, msg_queue, before>>

(* libcamera_app.cpp:350: queueRequest takes camera_stop_mutex_. *)
QrLock ==
    /\ camera_stop_mutex_ = "none"
    /\ \E r \in Requests :
         /\ loc[r] = "deleting"
         /\ loc' = [loc EXCEPT ![r] = "locked"]
    /\ camera_stop_mutex_' = "queueRequest"
    /\ hooked' = {}
    /\ UNCHANGED <<prog_vars, camera_started_, completed_requests_, pc_stop,
                   use_count, msg_queue, before>>

(* libcamera_app.cpp:351-377: the rest of queueRequest, under the mutex. *)
QrRequeue ==
    /\ \E r \in Requests :
         /\ loc[r] = "locked"
         /\ IF MayRequeue(camera_started_, completed_requests_, r)
            THEN /\ completed_requests_' = completed_requests_ \ {r}
                 /\ loc' = queueRequest(loc, r)
            ELSE /\ UNCHANGED completed_requests_
                 /\ loc' = [loc EXCEPT ![r] = "dropped"]
    /\ camera_stop_mutex_' = "none"
    /\ hooked' = {}
    /\ UNCHANGED <<prog_vars, camera_started_, pc_stop, use_count, msg_queue, before>>

(* libcamera_app.cpp:308: StopCamera takes camera_stop_mutex_. *)
ScLock ==
    /\ pc_stop = "idle" /\ camera_stop_mutex_ = "none"
    /\ pc_stop' = "locked"
    /\ camera_stop_mutex_' = "StopCamera"
    /\ hooked' = {}
    /\ UNCHANGED <<prog_vars, camera_started_, completed_requests_, use_count,
                   msg_queue, loc, before>>

(* libcamera_app.cpp:309-316: the camera is stopped, which cancels the
   requests queued to it, and the mutex is released. *)
ScStop ==
    /\ pc_stop = "locked"
    /\ IF camera_started_
       THEN loc' = [r \in Requests |-> IF loc[r] = "camera" THEN "cancelled" ELSE loc[r]]
       ELSE UNCHANGED loc
    /\ camera_started_' = FALSE
    /\ camera_stop_mutex_' = "none"
    /\ pc_stop' = "unlocked"
    /\ hooked' = {}
    /\ UNCHANGED <<prog_vars, completed_requests_, use_count, msg_queue, before>>

(* libcamera_app.cpp:318-327: completed_requests_ is cleared and the queue
   with it (libcamera_app.hpp:149-153), which releases the handles in the
   queue and so starts their deleters. *)
ScClear ==
    /\ pc_stop = "unlocked"
    /\ completed_requests_' = {}
    /\ msg_queue' = <<>>
    /\ before' = {}
    /\ use_count' = [r \in Requests |-> IF loc[r] = "relay" THEN 0 ELSE use_count[r]]
    /\ loc' = [r \in Requests |-> IF loc[r] = "relay" THEN "deleting" ELSE loc[r]]
    /\ hooked' = {r \in Requests : loc[r] = "relay"}
    /\ pc_stop' = "done"
    /\ UNCHANGED <<prog_vars, camera_started_, camera_stop_mutex_>>

AppNext ==
    \/ AppRequestComplete \/ AppTake \/ AppCopy \/ AppDrop
    \/ QrLock \/ QrRequeue
    \/ ScLock \/ ScStop \/ ScClear

AppSpec == Init /\ [][AppNext]_vars

(* ============== LibcameraApp stopped and started again ============== *)

(* The application starts the camera again after StopCamera, with handles
   from before the stop still out.  A request r stands for the Request and
   for the CompletedRequest made for it, which std::set<CompletedRequest *>
   completed_requests_ knows by its address.  stale[r] is the handle from
   before the stop: "held" by the application; "deleting" when its deleter
   has deleted the CompletedRequest (libcamera_app.cpp:345) and has not yet
   looked its address up (line 358); "reused" when, since that delete, operator
   new has given the freed address to the CompletedRequest of a new
   completion (line 555); "dropped" when queueRequest returned without
   queueing; "requeued" when it went on to queue the old Request. *)
StaleOf(l) == [r \in Requests |-> IF l[r] = "held" THEN "held" ELSE "none"]

(* libcamera_app.cpp:231-301, StartCamera after a StopCamera: new requests
   are made and queued to the started camera.  The deleters that StopCamera
   started by clearing the queue have run to their end inside it. *)
StartCamera ==
    /\ pc_stop = "done" /\ ~camera_started_
    /\ \A r \in Requests : loc[r] \notin {"deleting", "locked"}
    /\ camera_started_' = TRUE
    /\ pc_stop' = "restarted"
    /\ stale' = StaleOf(loc)
    /\ loc' = [r \in Requests |-> "camera"]
    /\ use_count' = [r \in Requests |-> 0]
    /\ hooked' = {}
    /\ UNCHANGED <<mgr_vars, loop_vars, net_vars, os_vars, enc_vars, proc,
                   hist_vars, last_cmd, mutex_, pc_cam, camera_stop_mutex_,
                   completed_requests_, msg_queue, before>>

(* The application drops the last handle it kept from before the stop: the
   deleter runs queueRequest up to the delete of line 345. *)
StaleDrop ==
    /\ \E r \in Requests :
         /\ stale[r] = "held"
         /\ stale' = [stale EXCEPT ![r] = "deleting"]
    /\ hooked' = {}
    /\ UNCHANGED <<mgr_vars, loop_vars, net_vars, os_vars, enc_vars, proc,
                   hist_vars, last_cmd, mutex_, pc_cam, lib_vars, msg_queue,
                   loc, before>>

(* libcamera_app.cpp:550-574: requestComplete whose new CompletedRequest
   (line 555) is allocated at the address a deleter has just freed. *)
RequestCompleteReusing ==
    /\ \E r \in Requests :
         /\ loc[r] = "camera" /\ stale[r] = "deleting"
         /\ stale' = [stale EXCEPT ![r] = "reused"]
         /\ loc' = [loc EXCEPT ![r] = "relay"]
         /\ use_count' = [use_count EXCEPT ![r] = 1]
         /\ completed_requests_' = completed_requests_ \cup {r}
         /\ msg_queue' = Push(msg_queue, r)
         /\ before' = before \cup {<<q, r>> : q \in {x \in Requests : loc[x] = "relay"}}
    /\ hooked' = {}
    /\ UNCHANGED <<mgr_vars, loop_vars, net_vars, os_vars, enc_vars, proc,
                   hist_vars, last_cmd, mutex_, pc_cam, camera_started_,
                   camera_stop_mutex_, pc_stop>>

(* The elements of completed_requests_ that the address kept by the deleter
   of the old handle of r compares equal to. *)
FoundAt(r) == IF stale[r] = "reused" THEN completed_requests_ \cap {r} ELSE {}

(* libcamera_app.cpp:350-377: the deleter of an old handle takes
   camera_stop_mutex_, makes its two tests and, if they pass, erases the
   element found and queues the old Request. *)
StaleRequeue ==
    /\ camera_stop_mutex_ = "none"
    /\ \E r \in Requests :
         /\ stale[r] \in {"deleting", "reused"}
         /\ IF MayRequeue(camera_started_, FoundAt(r), r)
            THEN /\ completed_requests_' = completed_requests_ \ {r}
                 /\ stale' = [stale EXCEPT ![r] = "requeued"]
            ELSE /\ UNCHANGED completed_requests_
                 /\ stale' = [stale EXCEPT ![r] = "dropped"]
    /\ hooked' = {}
    /\ UNCHANGED <<mgr_vars, loop_vars, net_vars, os_vars, enc_vars, proc,
                   hist_vars, last_cmd, mutex_, pc_cam, camera_started_,
                   camera_stop_mutex_, pc_stop, use_count, msg_queue, loc, before>>

RestartNext ==
    \/ AppRequestComplete \/ AppTake \/ AppCopy \/ AppDrop
    \/ QrLock \/ QrRequeue
    \/ ScLock \/ ScStop \/ ScClear
    \/ StartCamera \/ StaleDrop \/ RequestCompleteReusing \/ StaleRequeue

RestartSpec == Init /\ [][RestartNext]_vars


(* ======================= claims ======================= *)

(* What the last outputBuffer call was given and did. *)
LastConns == Range(last_bcast.conns)
(* The send to the i-th connection is made when every earlier send failed. *)
Attempted(i) == \A j \in 1..(i - 1) : last_bcast.res[last_bcast.conns[j]] # "ok"
FailedWith(i, errs) == Attempted(i) /\ last_bcast.res[last_bcast.conns[i]] \in errs
GotChunk(fd) == last_bcast.sent[fd] = last_bcast.size

(* C1: fan-out integrity.  When send() succeeds on every connection, an
   outputBuffer call sends the whole chunk to every connection. *)
C1_FanOutIntegrity ==
    (\A fd \in LastConns : last_bcast.res[fd] = "ok")
        => \A fd \in LastConns : GotChunk(fd)

(* C2: failure isolation.  Once the write to some client has failed, in this
   call or an earlier one, every client whose own writes succeed still gets
   each chunk in full. *)
C2_FailureIsolation ==
    last_bcast.fail_seen
        => \A fd \in LastConns : last_bcast.res[fd] = "ok" => GotChunk(fd)

(* C3 as stated: a connection whose write fails, for whatever reason, is out
   of the connection set and closed when the call returns. *)
C3_AnyFailureRemoves ==
    [][last_bcast' # last_bcast =>
         \A i \in 1..Len(last_bcast'.conns) :
            LET fd == last_bcast'.conns[i]
                failed == /\ \A j \in 1..(i - 1) :
                               last_bcast'.res[last_bcast'.conns[j]] # "ok"
                          /\ last_bcast'.res[fd] # "ok"
            IN failed => fd \notin Range(connections_') /\ fdt'[fd] = "free"]_vars

(* C3 amended: a connection whose write is made and fails with EPIPE is out
   of the connection set and closed when the call returns; every other
   connection (write succeeded, failed otherwise, or not made) stays in the
   set, open and in its place. *)
C3_EpipeRemoves ==
    [][last_bcast' # last_bcast =>
         LET conns == last_bcast'.conns
             res == last_bcast'.res
             Gone(i) == /\ \A j \in 1..(i - 1) : res[conns[j]] # "ok"
                        /\ res[conns[i]] = "EPIPE"
             Kept(fd) == \E i \in 1..Len(conns) : conns[i] = fd /\ ~Gone(i)
         IN /\ connections_' = SelectSeq(conns, Kept)
            /\ \A i \in 1..Len(conns) :
                 fdt'[conns[i]] = IF Gone(i) THEN "free" ELSE "conn"]_vars

(* A call in which one connection failed with EPIPE and was removed while
   another stayed. *)
C3_Witness ==
    /\ \E i \in 1..Len(last_bcast.conns) :
         /\ FailedWith(i, {"EPIPE"})
         /\ last_bcast.conns[i] \notin Range(connections_)
    /\ \E i \in 1..Len(last_bcast.conns) :
         /\ FailedWith(i, {"EOTHER"})
         /\ last_bcast.conns[i] \in Range(connections_)


(* Steps of the program, told apart by what they change. *)
(* serve_forever runs a command it queued itself for the reason `why'. *)
LoopExecutes(why) ==
    /\ pc = "cmds" /\ pc' = "wait"
    /\ commands # <<>> /\ Head(commands).origin = why
(* serve_forever takes one message off the queue. *)
LoopPops == pc = "drain" /\ msg_queue # <<>> /\ msg_queue' = Tail(msg_queue)
ListenOpen == \E fd \in FDs : fdt[fd] = "listen"

(* C4: gating.  A frame taken off the queue goes to the encoder exactly when
   m_state is CONNECTED at that moment; otherwise its request goes back to
   the camera and the encoder gets nothing. *)
C4_Gating ==
    [][LoopPops =>
         LET r == Head(msg_queue) IN
         IF m_state = "CONNECTED"
         THEN enc_queue' = Append(enc_queue, r) /\ loc'[r] = "encoder"
         ELSE enc_queue' = enc_queue /\ loc'[r] = "camera"]_vars

(* A frame drained while CONNECTED sits in the encoder, and the next frame
   is already completed behind it. *)
C4_Witness ==
    /\ m_state = "CONNECTED" /\ enc_queue # <<>>
    /\ \E r \in Requests : loc[r] = "relay"

(* C5: CONNECTED turns into IDLE only by a stop command from the control
   surface, never by a command serve_forever raised itself (timeout, closed). *)
C5_StreamingLeftOnlyByStop ==
    [][(m_state = "CONNECTED" /\ m_state' = "IDLE")
         => ~LoopExecutes("timeout") /\ ~LoopExecutes("closed")]_vars

(* C6: the timeout moves WAITING_CONNECTION to IDLE only when more than
   SERVER_WAITING_TIMEOUT seconds have passed since the wait-start time that
   startNetworkStream recorded. *)
C6_TimeoutOnlyAfterWindow ==
    [][(m_state = "WAITING_CONNECTION" /\ m_state' = "IDLE" /\ LoopExecutes("timeout"))
         => now - start_waiting_timestamp > SERVER_WAITING_TIMEOUT]_vars

(* C7: while waiting with no client connecting, the state becomes IDLE with
   the listening socket closed.  (The other ways out of the wait are a client
   that connects: it is pending, or accepted, or its accept failed and ended
   the process.) *)
C7_TimeoutEnforced ==
    (m_state = "WAITING_CONNECTION")
        ~> \/ m_state = "IDLE" /\ ~ListenOpen
           \/ pending > 0 \/ m_state = "CONNECTED" \/ proc = "terminated"

(* C8: end to end.  After a start command and an accepted client, and until
   the control surface sends a stop command, the state is CONNECTED. *)
C8_EndToEnd == session = "accepted" => m_state = "CONNECTED"

(* C9: the consumer's removal from the queue never overlaps a producer's
   Post: serve_forever is not in its drain loop while the camera thread holds
   the queue's mutex. *)
C9_QueueAccessExclusive == ~(pc = "drain" /\ mutex_ = "cam")

(* C10: m_state and m_net_output change only in steps of serve_forever. *)
C10_OnlyMainLoopWrites ==
    [][(m_state' # m_state \/ m_net_output' # m_net_output) => pc' # pc]_vars

(* C15: from IDLE only a start command changes m_state, to
   WAITING_CONNECTION; every other step (stop and capture commands, frames,
   turns of serve_forever) leaves it IDLE, and no listening socket is open
   while it is IDLE. *)
C15_IdleLeftOnlyByStart ==
    [][/\ m_state = "IDLE" /\ m_state' # "IDLE"
            => last_cmd' = "OPEN_NETWORK_STREAM" /\ m_state' = "WAITING_CONNECTION"
       /\ m_state' = "IDLE" => ~ListenOpen']_vars

(* A stop command has run in IDLE before any stream was started, and
   serve_forever has gone through its switch and poll in IDLE. *)
C15_Witness ==
    /\ m_state = "IDLE" /\ last_cmd = "CLOSE_NETWORK_STREAM"
    /\ m_net_output = "nullptr" /\ ~closed_ /\ pc = "cmds"

(* C16: a capture command changes neither m_state nor the NetOutput, the
   sockets, the connection list or the running encoder. *)
C16_CaptureChangesNothing ==
    [][last_cmd' = "CAPTURE_IMAGE"
         => UNCHANGED <<m_state, m_net_output, listen_fd, connections_, fdt,
                        pending, encoder_running, enc_queue>>]_vars

(* A capture command has run while a client was being streamed to. *)
C16_Witness ==
    /\ last_cmd = "CAPTURE_IMAGE" /\ m_state = "CONNECTED"
    /\ connections_ # <<>> /\ encoder_running

(* C17: a stop command from the control surface in CONNECTED leaves the
   state IDLE, the encoder stopped, the listening socket and every connection
   closed; and a start command from IDLE begins with no connection. *)
C17_StopClosesEverything ==
    [][/\ (last_cmd' = "CLOSE_NETWORK_STREAM" /\ m_state = "CONNECTED"
           /\ proc' = "running")
            => /\ m_state' = "IDLE" /\ ~encoder_running'
               /\ ~ListenOpen'
               /\ \A i \in 1..Len(connections_) : fdt'[connections_[i]] = "free"
               /\ connections_' = <<>>
       /\ (last_cmd' = "OPEN_NETWORK_STREAM" /\ m_state = "IDLE"
           /\ m_state' = "WAITING_CONNECTION")
            => connections_' = <<>>]_vars

(* A stream that had a client was torn down, and the control surface has
   started a new one after it. *)
C17_Witness ==
    /\ last_cmd = "OPEN_NETWORK_STREAM" /\ m_state = "WAITING_CONNECTION"
    /\ cb_target = "dangling"

(* C18: a start command in WAITING_CONNECTION or CONNECTED changes neither
   the state, the wait-start time, the NetOutput and its listening socket,
   nor the connection list. *)
C18_StartIdempotent ==
    [][(last_cmd' = "OPEN_NETWORK_STREAM" /\ m_state # "IDLE")
         => UNCHANGED <<m_state, start_waiting_timestamp, m_net_output,
                        m_socket_fd, listen_fd, closed_, connections_, fdt,
                        pending>>]_vars

(* A start command has run while a client was being streamed to. *)
C18_Witness ==
    /\ last_cmd = "OPEN_NETWORK_STREAM" /\ m_state = "CONNECTED"
    /\ connections_ # <<>>

(* C19: in CONNECTED with every connection gone, the state stays CONNECTED
   with the listening socket open, and a client that connects then is
   accepted into connections_ (unless the stream is stopped first). *)
C19_LateClientAccepted ==
    (m_state = "CONNECTED" /\ connections_ = <<>> /\ pending > 0)
        ~> (connections_ # <<>> \/ m_state # "CONNECTED" \/ proc = "terminated")

(* C20: closed() is true exactly when connections_ is empty. *)
C20_ClosedIffNoConnections ==
    m_net_output = "obj" => (closed <=> connections_ = <<>>)

(* C13: the frame serve_forever takes off the queue is never one that was
   posted after a frame still waiting in the queue. *)
C13_RemovedInPostOrder ==
    [][LoopPops => \A q \in Requests : <<q, Head(msg_queue)>> \notin before]_vars

(* A frame was posted while serve_forever was draining, behind a frame that
   is still in the queue. *)
C13_Witness ==
    /\ pc = "drain" /\ Len(msg_queue) = 2
    /\ <<msg_queue[1], msg_queue[2]>> \in before

(* C14: a posted frame is not dropped.  A frame that requestComplete is
   posting goes into the queue, a frame in the queue leaves it only by being
   handed to serve_forever, and Wait() returns only on a queue that is not
   empty. *)
C14_NoFrameDropped ==
    [][/\ \A r \in Requests :
            /\ (loc[r] = "posting" /\ loc'[r] # "posting") => loc'[r] = "relay"
            /\ (loc[r] = "relay" /\ loc'[r] # "relay")
                 => LoopPops /\ Head(msg_queue) = r
       /\ (pc = "wait" /\ pc' = "drain") => msg_queue # <<>>]_vars

(* C11: the deleter of a completed request, queueRequest, runs exactly when
   the last of its handles is released, however many copies were made, and
   not again: a request has handles again only after the camera has completed
   it anew. *)
C11_RecycledOnceAfterLastHandle ==
    [][\A r \in Requests :
         /\ r \in hooked' <=> (use_count[r] > 0 /\ use_count'[r] = 0)
         /\ (use_count[r] = 0 /\ use_count'[r] > 0) => loc[r] = "camera"]_vars

(* The deleter of a request has just run while another frame is out with
   the application under several handles. *)
C11_Witness ==
    \E r, q \in Requests :
        /\ r \in hooked /\ use_count[r] = 0 /\ loc[r] = "deleting"
        /\ use_count[q] > 1

(* C12: once the camera is stopped no request is queued to it and nothing
   fails, and queueRequest is never inside its locked part while StopCamera
   is inside its own. *)
C12_NoRequeueAfterStop ==
    /\ ~camera_started_ => \A r \in Requests : loc[r] # "camera"
    /\ ~(pc_stop = "locked" /\ \E r \in Requests : loc[r] = "locked")
    /\ proc = "running"

(* The last handle of a frame was released after the camera was stopped, and
   queueRequest returned without requeueing. *)
C12_Witness ==
    /\ ~camera_started_ /\ pc_stop = "done"
    /\ \E r \in Requests : loc[r] = "dropped"

(* C21: a word on the control channel that is none of the three recognised
   commands produces no command: the step of main() that reads it changes
   neither the state nor the NetOutput, the sockets, the connections or the
   encoder. *)
C21_UnrecognisedIgnored ==
    [][last_cmd' = "UNRECOGNISED"
         => UNCHANGED <<m_state, m_net_output, listen_fd, connections_, fdt,
                        pending, encoder_running, enc_queue>>]_vars

(* C22: after stop() has set the stop request, serve_forever is signalled out
   of its wait, even if no further frame is posted, and then returns, so
   that the join in stop() returns.  The formula is the first step of that:
   a serve_forever that is in Wait() when the stop is requested leaves it. *)
C22_StopJoins ==
    (m_stop_request /\ pc = "wait") ~> (pc # "wait" \/ proc = "terminated")

(* C23: serve_forever waits for a frame and for a pending connection or
   the timeout together: a client that is pending while the state is
   WAITING_CONNECTION is acted upon (accepted, or the state left) even when
   no frame arrives. *)
C23_PendingActedOn ==
    (m_state = "WAITING_CONNECTION" /\ pending > 0)
        ~> (m_state # "WAITING_CONNECTION" \/ pending = 0 \/ proc = "terminated")

(* C24: when a step of a state transition fails (the listening socket
   cannot be opened or bound during a start, the accept step fails), the
   program is left in IDLE with no NetOutput, no listening socket and no
   connection, and goes on running, so that a later start begins from a clean
   state. *)
C24_FailureLeavesIdleClean ==
    /\ m_state = "IDLE"
         => m_net_output = "nullptr" /\ \A fd \in FDs : fdt[fd] = "free"
    /\ proc = "terminated" => m_state = "IDLE"

(* C25: a runtime error after startup is absorbed: after an accept of a
   pending connection, failed or not, and after a client write that failed
   and had its connection removed, the process is running; the failed write
   does not move serve_forever. *)
C25_RuntimeErrorsAbsorbed ==
    [][/\ (/\ pc = "accept" /\ pending' = pending - 1
           /\ m_net_output = "obj" /\ m_net_output' = "obj")
            => proc' = "running"
       /\ (/\ Len(connections_') < Len(connections_)
           /\ m_net_output = "obj" /\ m_net_output' = "obj")
            => proc' = "running" /\ pc' = pc]_vars

(* C26: a handle made before StopCamera and released only after a later
   StartCamera never queues its request to the restarted camera: its
   release finds nothing in completed_requests_ and returns. *)
C26_StaleHandleNotRequeued == \A r \in Requests : stale[r] # "requeued"

(* C27: the NetOutput is never used after stopNetworkStream has deleted it,
   whatever the interleaving of control commands, turns of serve_forever
   and encoder callbacks: it is not deleted in CONNECTED while the running
   encoder still has a frame to hand to the callback bound to it, and
   serve_forever is never about to call acceptConnection with the NetOutput
   gone. *)
C27_NoUseAfterDelete ==
    [][/\ (m_state = "CONNECTED" /\ m_net_output = "obj" /\ m_net_output' = "nullptr")
            => ~(encoder_running /\ cb_target = "current" /\ enc_queue # <<>>)
       /\ ~(pc' = "accept" /\ m_net_output' = "nullptr")]_vars

(* C28: encoder start and stop alternate and follow the state: the encoder
   runs exactly when the state is CONNECTED, and the step that accepts a
   connection and calls StartEncoder is taken only from WAITING_CONNECTION
   with the encoder stopped, not again for a further client in CONNECTED. *)
C28_EncoderTracksState ==
    [][/\ encoder_running' <=> m_state' = "CONNECTED"
       /\ Len(connections_') > Len(connections_)
            => m_state = "WAITING_CONNECTION" /\ ~encoder_running]_vars

(* C29: every socket descriptor is closed exactly once: when a stream is
   stopped (by a stop command or by the timeout), each descriptor handed to
   close() is one the server has opened and that is still open, and none is
   handed to close() twice. *)
C29_ClosedExactlyOnce ==
    [][(m_state # "IDLE" /\ m_state' = "IDLE" /\ m_net_output = "obj")
         => \A i \in 1..Len(ClosedByStop) :
              /\ ClosedByStop[i] \in FDs
              /\ fdt[ClosedByStop[i]] # "free"
              /\ \A j \in 1..(i - 1) : ClosedByStop[j] # ClosedByStop[i]]_vars

====
